---- MODULE Spec2Model ----
(***************************************************************************)
(* Model of src/custom-client/custom_patch.py: the request/reply           *)
(* correlator (_next_id, _pending, _on_message, post_and_wait), the token  *)
(* exchange (get_ory_token), the bundle fetch (get_data), the virtual      *)
(* package installer (_ensure_virtual_root, install_virtual_package) and   *)
(* the entry point apply_custom_patch.                                     *)
(*                                                                         *)
(* Scheduling is asyncio's: one thread, tasks run from one await to the    *)
(* next without interruption.  Every action below is one such segment of   *)
(* one task, or one event dispatched by the host to the registered         *)
(* listeners.                                                              *)
(***************************************************************************)
EXTENDS Integers, Sequences, FiniteSets, TLC

\* ------------------------------------------------------------------ bounds
\* Number of request ids the model lets post_and_wait issue.
MaxId == 2
\* Number of tasks that may be inside apply_custom_patch at the same time.
NumTasks == 2

Tasks == 1..NumTasks
\* Integer request_id values the host may put in an inbound message: the ids that
\* can be issued and one that never is.
MsgIds == 1..(MaxId + 1)

\* ------------------------------------------------------- program constants
VIRTUAL_ROOT == "/custom_pkgs"
\* sys.path of a fresh interpreter: some entries, none of them VIRTUAL_ROOT.
InitialSysPath == <<"/lib/python">>

\* ------------------------------------------------------------ Python values
\* A Python value as far as the code tells values apart: tag and payload.
PyInt(n) == [tag |-> "int", n |-> n, s |-> ""]
PyStr(s) == [tag |-> "str", n |-> 0, s |-> s]
PyNone == [tag |-> "none", n |-> 0, s |-> ""]
PyTrue == [tag |-> "bool", n |-> 1, s |-> ""]
PyList == [tag |-> "list", n |-> 0, s |-> ""]

\* hash(v) is defined: a list raises TypeError.
Hashable(v) == v.tag # "list"

\* v == k for an int key k of _pending: int equals int, True equals 1.
PyEqInt(v, k) == v.tag \in {"int", "bool"} /\ v.n = k

\* Line 102 as isinstance(token, str) alone: the empty string passes.
TokenUsableAnyStr(token) == token.tag = "str"

\* Line 102: isinstance(token, str) and token
TokenUsable(token) == token.tag = "str" /\ token.s # ""

\* Values the host may send as request_id and as value.
RequestIdValues == {PyInt(i) : i \in MsgIds} \cup {PyNone, PyTrue, PyList}
TokenValues == {PyStr("tok"), PyStr(""), PyNone, PyInt(7)}

\* event.data of an inbound message event.
\*   "dict"      a JS object: to_py() gives a dict
\*   "array"     a JS array: to_py() gives a list, which has no .get
\*   "primitive" a JS string/number: already a Python value, no .to_py
DictEvent(rid, val) == [kind |-> "dict", request_id |-> rid, value |-> val]
ArrayEvent == [kind |-> "array", request_id |-> PyNone, value |-> PyNone]
PrimitiveEvent == [kind |-> "primitive", request_id |-> PyNone, value |-> PyNone]
Events ==
    {DictEvent(r, v) : r \in RequestIdValues, v \in TokenValues}
        \cup {ArrayEvent, PrimitiveEvent}
\* The code reads "value" of a reply only after the reply completed a future
\* (line 51), so a reply that meets no pending request is tried with one value.
Distinct(pend, event) ==
    \/ event.value = PyStr("tok")
    \/ \E k \in DOMAIN pend : PyEqInt(event.request_id, k)

\* ------------------------------------------------------------- the futures
\* asyncio.Future as used here: not yet done, or done with a result.
NoFuture == [state |-> "none", result |-> PrimitiveEvent]
NewFuture == [state |-> "pending", result |-> PrimitiveEvent]
DoneFuture(data) == [state |-> "done", result |-> data]

VARIABLES
    _next_id,    \* _next_id: the next request id
    _pending,    \* _pending: request id -> the task whose frame holds the future
    fut,         \* fut of each task's post_and_wait frame
    request_id,  \* request_id of each task's post_and_wait frame (0: no frame)
    posted,      \* whether postMessage of each task's frame went through
    pc,          \* where each task is suspended
    token,       \* token of each task's apply_custom_patch frame
    response,    \* response of each task's get_data frame: its HTTP status
    listeners,   \* tasks whose listener proxy is registered for "message"
    sys_path,    \* sys.path
    root_exists, \* Path(VIRTUAL_ROOT).exists()
    files,       \* the files under VIRTUAL_ROOT: relative path -> bytes
    issued,      \* history: the request ids assigned, in order
    count,       \* history: fetches started and installs begun: 0, 1 or "more" (2)
    last         \* history: the step just taken

vars ==
    <<_next_id, _pending, fut, request_id, posted, pc, token, response, listeners,
      sys_path, root_exists, files, issued, count, last>>

\* x in seq
InSeq(x, seq) == \E i \in 1..Len(seq) : seq[i] = x

\* d.get(k) where the code has d.pop(k): the entry stays.
DictPopKeeps(d, k) == d

\* d.pop(k)
DictPop(d, k) == [i \in (DOMAIN d) \ {k} |-> d[i]]
\* d[k] = v
DictSet(d, k, v) == [i \in (DOMAIN d) \cup {k} |-> IF i = k THEN v ELSE d[i]]
EmptyDict == [i \in {} |-> 0]

\* A step as `last` records it.
\*   op        "init", "apply", "message", "token", "fetch", "json"
\*   task      the task that ran (0 for a message)
\*   result    how the task's run ended in this step, "" while it goes on
\*   class     of a message: its EventClass; of a token step: the type of the value
\*   errors    how many of these calls logged an exception
\*   escaped   whether an exception left _on_message
Step(op, t, result) ==
    [op |-> op, task |-> t, result |-> result, class |-> "", errors |-> 0,
     escaped |-> FALSE]
NoStep == Step("init", 0, "")

\* --------------------------------------------------------------- _on_message
\* Replies matched in the order of the requests, not by id: the oldest pending key.
PendingKeyOldest(pend, rid) == CHOOSE k \in DOMAIN pend : \A j \in DOMAIN pend : k <= j

\* Line 21: the key of _pending that request_id is equal to, where there is one.
PendingKey(pend, rid) == CHOOSE k \in DOMAIN pend : PyEqInt(rid, k)
InPending(pend, rid) == \E k \in DOMAIN pend : PyEqInt(rid, k)

\* Lines 17-22 without the test of line 20: _pending.pop(request_id) raises
\* KeyError for a request_id that is not pending.
OnMessageTryNoTest(st, event) ==
    IF event.kind # "dict" \/ ~Hashable(event.request_id)
    THEN [pending |-> st.pending, fut |-> st.fut, raised |-> TRUE]
    ELSE IF InPending(st.pending, event.request_id)
    THEN LET k == PendingKey(st.pending, event.request_id)
             t == st.pending[k]
         IN  [pending |-> DictPop(st.pending, k),
              fut |-> [st.fut EXCEPT ![t] = DoneFuture(event)],
              raised |-> FALSE]
    ELSE [pending |-> st.pending, fut |-> st.fut, raised |-> TRUE]

\* Lines 17-22 with _pending[request_id] in place of _pending.pop(request_id): the
\* entry stays, and set_result on a future that is done raises InvalidStateError.
OnMessageTryNoPop(st, event) ==
    IF event.kind # "dict" \/ ~Hashable(event.request_id)
    THEN [pending |-> st.pending, fut |-> st.fut, raised |-> TRUE]
    ELSE IF InPending(st.pending, event.request_id)
    THEN LET k == PendingKey(st.pending, event.request_id)
             t == st.pending[k]
         IN  IF st.fut[t].state = "pending"
             THEN [pending |-> st.pending,
                   fut |-> [st.fut EXCEPT ![t] = DoneFuture(event)],
                   raised |-> FALSE]
             ELSE [pending |-> st.pending, fut |-> st.fut, raised |-> TRUE]
    ELSE [pending |-> st.pending, fut |-> st.fut, raised |-> FALSE]

\* Lines 17-22, the body of the try: the state after it, and whether it raised.
OnMessageTry(st, event) ==
    IF event.kind # "dict"
    THEN [pending |-> st.pending, fut |-> st.fut, raised |-> TRUE]
    ELSE IF ~Hashable(event.request_id)
    THEN [pending |-> st.pending, fut |-> st.fut, raised |-> TRUE]
    ELSE IF InPending(st.pending, event.request_id)
    THEN LET k == PendingKey(st.pending, event.request_id)
             t == st.pending[k]
             data == event
         IN  IF st.fut[t].state = "pending"
             THEN [pending |-> DictPop(st.pending, k),
                   fut |-> [st.fut EXCEPT ![t] = DoneFuture(data)],
                   raised |-> FALSE]
             ELSE [pending |-> DictPop(st.pending, k), fut |-> st.fut,
                   raised |-> TRUE]
    ELSE [pending |-> st.pending, fut |-> st.fut, raised |-> FALSE]

\* Lines 17-22 without the try/except around them: the exception leaves the callback.
OnMessageNoExcept(st, event) ==
    LET r == OnMessageTry(st, event)
    IN  [pending |-> r.pending, fut |-> r.fut, errors |-> st.errors,
         escaped |-> st.escaped \/ r.raised]

\* Lines 15-24: the try with its except, which logs and swallows.
_on_message(st, event) ==
    LET r == OnMessageTry(st, event)
    IN  [pending |-> r.pending, fut |-> r.fut,
         errors |-> st.errors + (IF r.raised THEN 1 ELSE 0),
         escaped |-> st.escaped]

\* The host's dispatch of one event: each registered listener is called in turn.
RECURSIVE Dispatch(_, _, _)
Dispatch(st, event, n) ==
    IF n = 0 THEN st ELSE Dispatch(_on_message(st, event), event, n - 1)

\* What an inbound event is, given the pending mapping it meets and the next id:
\*   "undecodable" no dict comes out of it, or its request_id cannot be hashed
\*   "known"       its request_id is a key of the pending mapping
\*   "resolved"    its request_id was issued and is no longer pending
\*   "absent"      it has no request_id
\*   "unknown"     its request_id was never issued
EventClass(pend, nxt, event) ==
    IF event.kind # "dict" THEN "undecodable"
    ELSE IF ~Hashable(event.request_id) THEN "undecodable"
    ELSE IF \E k \in DOMAIN pend : PyEqInt(event.request_id, k) THEN "known"
    ELSE IF \E k \in 1..(nxt - 1) : PyEqInt(event.request_id, k) THEN "resolved"
    ELSE IF event.request_id = PyNone THEN "absent"
    ELSE "unknown"

\* The host delivers one "message" event.
Message(event) ==
    /\ listeners # {}
    /\ Distinct(_pending, event)
    /\ LET st == [pending |-> _pending, fut |-> fut, errors |-> 0, escaped |-> FALSE]
           r == Dispatch(st, event, Cardinality(listeners))
       IN  /\ _pending' = r.pending
           /\ fut' = r.fut
           /\ last' = [Step("message", 0, "") EXCEPT
                           !.class = EventClass(_pending, _next_id, event),
                           !.errors = r.errors,
                           !.escaped = r.escaped]
    /\ UNCHANGED <<_next_id, request_id, posted, pc, token, response, listeners,
                   sys_path, root_exists, files, issued, count>>

\* ------------------------------------------------------------------- base64
\* The base64 alphabet of base64.b64encode / base64.b64decode.
B64Alphabet ==
    <<"A", "B", "C", "D", "E", "F", "G", "H", "I", "J", "K", "L", "M", "N", "O", "P",
      "Q", "R", "S", "T", "U", "V", "W", "X", "Y", "Z", "a", "b", "c", "d", "e", "f",
      "g", "h", "i", "j", "k", "l", "m", "n", "o", "p", "q", "r", "s", "t", "u", "v",
      "w", "x", "y", "z", "0", "1", "2", "3", "4", "5", "6", "7", "8", "9", "+", "/">>
B64Char(v) == B64Alphabet[v + 1]
IsB64(c) == \E i \in 1..Len(B64Alphabet) : B64Alphabet[i] = c
B64Value(c) == (CHOOSE i \in 1..Len(B64Alphabet) : B64Alphabet[i] = c) - 1

\* base64.b64encode(raw_bytes).decode("utf-8"): bytes to a sequence of characters.
RECURSIVE b64encode(_)
b64encode(bytes) ==
    IF Len(bytes) = 0 THEN <<>>
    ELSE IF Len(bytes) = 1
    THEN LET n == bytes[1] * 16
         IN  <<B64Char(n \div 64), B64Char(n % 64), "=", "=">>
    ELSE IF Len(bytes) = 2
    THEN LET n == (bytes[1] * 256 + bytes[2]) * 4
         IN  <<B64Char(n \div 4096), B64Char((n \div 64) % 64), B64Char(n % 64), "=">>
    ELSE LET n == bytes[1] * 65536 + bytes[2] * 256 + bytes[3]
         IN  <<B64Char(n \div 262144), B64Char((n \div 4096) % 64),
               B64Char((n \div 64) % 64), B64Char(n % 64)>>
                 \o b64encode(SubSeq(bytes, 4, Len(bytes)))

\* The bytes a group of 2, 3 or 4 sextets stands for.
QuadBytes(quad) ==
    IF Len(quad) = 4
    THEN LET n == quad[1] * 262144 + quad[2] * 4096 + quad[3] * 64 + quad[4]
         IN  <<n \div 65536, (n \div 256) % 256, n % 256>>
    ELSE IF Len(quad) = 3
    THEN LET n == (quad[1] * 4096 + quad[2] * 64 + quad[3]) \div 4
         IN  <<n \div 256, n % 256>>
    ELSE IF Len(quad) = 2
    THEN <<(quad[1] * 64 + quad[2]) \div 16>>
    ELSE <<>>

\* binascii.a2b_base64 as base64.b64decode(src) calls it (validate=False): characters
\* outside the alphabet are skipped, enough "=" after two or three sextets of a group
\* end the data, and a group left open at the end raises binascii.Error.
RECURSIVE a2b_base64(_, _, _, _, _)
a2b_base64(src, i, quad, pads, out) ==
    IF i > Len(src)
    THEN [ok |-> quad = <<>>, bytes |-> out]
    ELSE IF src[i] = "="
    THEN IF Len(quad) >= 2 /\ pads + 1 >= 4 - Len(quad)
         THEN [ok |-> TRUE, bytes |-> out \o QuadBytes(quad)]
         ELSE a2b_base64(src, i + 1, quad, pads + 1, out)
    ELSE IF ~IsB64(src[i])
    THEN a2b_base64(src, i + 1, quad, pads, out)
    ELSE LET q == Append(quad, B64Value(src[i]))
         IN  IF Len(q) = 4
             THEN a2b_base64(src, i + 1, <<>>, 0, out \o QuadBytes(q))
             ELSE a2b_base64(src, i + 1, q, 0, out)

b64decode(src) == a2b_base64(src, 1, <<>>, 0, <<>>)

\* -------------------------------------------------------------------- UTF-8
IsCont(b) == b >= 128 /\ b <= 191

\* bytes.decode("utf-8"): the code points, or a UnicodeDecodeError.
RECURSIVE utf8_decode(_, _, _)
utf8_decode(bytes, i, out) ==
    IF i > Len(bytes) THEN [ok |-> TRUE, text |-> out]
    ELSE LET b == bytes[i]
             have(k) == i + k <= Len(bytes)
             c(k) == bytes[i + k]
         IN  IF b < 128 THEN utf8_decode(bytes, i + 1, Append(out, b))
             ELSE IF b >= 194 /\ b <= 223
             THEN IF have(1) /\ IsCont(c(1))
                  THEN utf8_decode(bytes, i + 2,
                           Append(out, (b - 192) * 64 + (c(1) - 128)))
                  ELSE [ok |-> FALSE, text |-> out]
             ELSE IF b >= 224 /\ b <= 239
             THEN IF /\ have(2) /\ IsCont(c(1)) /\ IsCont(c(2))
                     /\ (b = 224 => c(1) >= 160)
                     /\ (b = 237 => c(1) <= 159)
                  THEN utf8_decode(bytes, i + 3,
                           Append(out, (b - 224) * 4096 + (c(1) - 128) * 64
                                           + (c(2) - 128)))
                  ELSE [ok |-> FALSE, text |-> out]
             ELSE IF b >= 240 /\ b <= 244
             THEN IF /\ have(3) /\ IsCont(c(1)) /\ IsCont(c(2)) /\ IsCont(c(3))
                     /\ (b = 240 => c(1) >= 144)
                     /\ (b = 244 => c(1) <= 143)
                  THEN utf8_decode(bytes, i + 4,
                           Append(out, (b - 240) * 262144 + (c(1) - 128) * 4096
                                           + (c(2) - 128) * 64 + (c(3) - 128)))
                  ELSE [ok |-> FALSE, text |-> out]
             ELSE [ok |-> FALSE, text |-> out]

\* str.encode("utf-8") of decoded text, as write_text(..., encoding="utf-8") does.
RECURSIVE utf8_encode(_)
utf8_encode(text) ==
    IF Len(text) = 0 THEN <<>>
    ELSE LET cp == text[1]
             first ==
                 IF cp < 128 THEN <<cp>>
                 ELSE IF cp < 2048 THEN <<192 + (cp \div 64), 128 + (cp % 64)>>
                 ELSE IF cp < 65536
                 THEN <<224 + (cp \div 4096), 128 + ((cp \div 64) % 64),
                        128 + (cp % 64)>>
                 ELSE <<240 + (cp \div 262144), 128 + ((cp \div 4096) % 64),
                        128 + ((cp \div 64) % 64), 128 + (cp % 64)>>
         IN  first \o utf8_encode(Tail(text))

\* ------------------------------------------------------------ the installer
\* base64.b64decode(src).decode("utf-8") written by write_text(..., "utf-8"):
\* the bytes of the file, or the exception of the failing conversion.
DecodedFile(src) ==
    LET raw == b64decode(src)
        txt == utf8_decode(raw.bytes, 1, <<>>)
    IN  IF ~raw.ok THEN [ok |-> FALSE, bytes |-> <<>>]
        ELSE IF ~txt.ok THEN [ok |-> FALSE, bytes |-> <<>>]
        ELSE [ok |-> TRUE, bytes |-> utf8_encode(txt.text)]

\* Line 74 left out: every call appends.
NeedsAppendAlways(path) == TRUE

\* Line 74: VIRTUAL_ROOT not in sys.path
NeedsAppend(path) == ~InSeq(VIRTUAL_ROOT, path)

\* Lines 65-71 alone: the directory is made, sys.path is left as it is.
EnsureRootNoAppend(fs) == [fs EXCEPT !.root_exists = TRUE]

\* Lines 65-75: the directory and sys.path after _ensure_virtual_root().
_ensure_virtual_root(fs) ==
    [fs EXCEPT !.root_exists = TRUE,
               !.sys_path = IF NeedsAppend(fs.sys_path)
                            THEN Append(fs.sys_path, VIRTUAL_ROOT)
                            ELSE fs.sys_path]

\* Line 86: Path(VIRTUAL_ROOT) / relpath.  A path is the sequence of its
\* components (relpath split at "/"); pathlib drops "." and empty components, keeps
\* "..", and a relpath that starts with "/" (a first component "") replaces the
\* left operand.
AbsPath(relpath) ==
    LET Kept(c) == c # "." /\ c # ""
    IN  IF relpath # <<>> /\ relpath[1] = ""
        THEN <<"">> \o SelectSeq(relpath, Kept)
        ELSE <<"", "custom_pkgs">> \o SelectSeq(relpath, Kept)

\* Lines 85-92 with a decode failure caught per entry: the loop goes on to the
\* next entry and reports the failure at its end.
RECURSIVE InstallLoopSkipping(_, _, _)
InstallLoopSkipping(fs, bundle, i) ==
    IF i > Len(bundle) THEN fs
    ELSE LET d == DecodedFile(bundle[i].src)
         IN  IF ~d.ok
             THEN InstallLoopSkipping([fs EXCEPT !.raised = TRUE], bundle, i + 1)
             ELSE InstallLoopSkipping(
                      [fs EXCEPT !.files = DictSet(fs.files,
                                                   AbsPath(bundle[i].relpath),
                                                   d.bytes)],
                      bundle, i + 1)

\* Lines 85-92 writing each path of the mapping once: an entry whose file an
\* earlier entry of the same bundle wrote is passed over.
RECURSIVE InstallLoopFirstWins(_, _, _)
InstallLoopFirstWins(fs, bundle, i) ==
    IF i > Len(bundle) THEN [fs EXCEPT !.raised = FALSE]
    ELSE LET d == DecodedFile(bundle[i].src)
             seen == \E j \in 1..(i - 1) :
                         AbsPath(bundle[j].relpath) = AbsPath(bundle[i].relpath)
         IN  IF ~d.ok THEN [fs EXCEPT !.raised = TRUE]
             ELSE InstallLoopFirstWins(
                      IF seen THEN fs
                      ELSE [fs EXCEPT !.files = DictSet(fs.files,
                                                        AbsPath(bundle[i].relpath),
                                                        d.bytes)],
                      bundle, i + 1)

\* Lines 85-92: the loop over files.items() from entry i on; a failing decode
\* raises out of the loop, the files written so far stay.
RECURSIVE InstallLoop(_, _, _)
InstallLoop(fs, bundle, i) ==
    IF i > Len(bundle) THEN [fs EXCEPT !.raised = FALSE]
    ELSE LET d == DecodedFile(bundle[i].src)
         IN  IF ~d.ok THEN [fs EXCEPT !.raised = TRUE]
             ELSE InstallLoop(
                      [fs EXCEPT !.files = DictSet(fs.files,
                                                   AbsPath(bundle[i].relpath),
                                                   d.bytes)],
                      bundle, i + 1)

\* Lines 78-92
install_virtual_package(fs, bundle) ==
    InstallLoop(_ensure_virtual_root(fs), bundle, 1)

\* The file system and search path as one value, for the operators above.
FileState ==
    [root_exists |-> root_exists, sys_path |-> sys_path, files |-> files,
     raised |-> FALSE]

\* ---------------------------------------------------- what the host may send
Entry(relpath, src) == [relpath |-> relpath, src |-> src]
\* b"x=1", a text of two-, three- and four-byte characters, and bytes that are not
\* UTF-8, each as the packaging script encodes them; and a truncated encoding.
SrcX == b64encode(<<120, 61, 49>>)
SrcWide == b64encode(<<195, 169, 226, 130, 172, 240, 159, 152, 128>>)
SrcNotUtf8 == b64encode(<<255, 254>>)
SrcTruncated == <<"e", "D", "0">>
\* The "code" mappings of the bundle endpoint's answers, in their own order.
\* The last one has two keys, "pkg/a.py" and "./pkg/a.py", that name one file.
Bundles ==
    { <<Entry(<<"pkg", "a.py">>, SrcX), Entry(<<"pkg", "__init__.py">>, <<>>)>>,
      <<Entry(<<"pkg", "a.py">>, SrcWide), Entry(<<"pkg", "b.py">>, SrcTruncated),
        Entry(<<"pkg", "c.py">>, SrcX)>>,
      <<Entry(<<"pkg", "a.py">>, SrcNotUtf8), Entry(<<"pkg", "b.py">>, SrcX)>>,
      <<Entry(<<"pkg", "a.py">>, SrcX), Entry(<<".", "pkg", "a.py">>, <<>>)>> }

\* What awaiting fetch(...) gives: a rejected promise (network error) or a response
\* with a status; fetch resolves for every status, 2xx or not.
FetchResults == {"reject", "200", "401"}
\* What awaiting response.json() and data.to_py() give:
\*   "malformed"  the body is not JSON: json() rejects
\*   "primitive"  a JSON string or number: no .to_py on the Python value
\*   "nocode"     a JSON object without a usable "code" entry
\*   "bundle"     a JSON object whose "code" is the mapping
Bodies ==
    {[kind |-> k, code |-> <<>>] : k \in {"malformed", "primitive", "nocode"}}
        \cup {[kind |-> "bundle", code |-> b] : b \in Bundles}


\* One more in a history count that tells 0, 1 and more than 1 apart.
More(n) == IF n = 0 THEN 1 ELSE 2

\* ------------------------------------------------------------- post_and_wait
\* Line 32 left out: the counter stays.
NextIdStuck(n) == n

\* Line 32: _next_id += 1
NextId(n) == n + 1

\* Line 38: _pending[request_id] = fut
Register(pend, id, t) == DictSet(pend, id, t)

\* Lines 40-46 without the try/except: a failing postMessage leaves post_and_wait
\* as an exception and the run ends.
AfterPostRaising(transmitted) == IF transmitted THEN "await_token" ELSE "idle"

\* Lines 40-46: where the caller is after the attempt to transmit; a failure is
\* logged and swallowed, and the caller goes on to `await fut` either way.
AfterPost(transmitted) == "await_token"

\* -------------------------------------------------------- apply_custom_patch
\* Line 95 left out: the run never short-circuits.
AlreadyPatchedNever(path) == FALSE

\* Line 95: VIRTUAL_ROOT in sys.path
AlreadyPatched(path) == InSeq(VIRTUAL_ROOT, path)

\* Lines 94-100 with get_ory_token (line 50) and post_and_wait (lines 28-46) up to
\* `await fut`: task t calls apply_custom_patch(); `transmitted` is whether
\* to_js/postMessage went through (lines 40-44 log and swallow a failure).
\* Tasks outside a run hold no state, so a new run takes the lowest free one.
ApplyCustomPatch(t, transmitted) ==
    /\ pc[t] = "idle"
    /\ \A u \in Tasks : u < t => pc[u] # "idle"
    /\ IF AlreadyPatched(sys_path)
       THEN /\ transmitted
            /\ last' = Step("apply", t, "skipped")
            /\ UNCHANGED <<_next_id, _pending, fut, request_id, posted, pc,
                           listeners, issued>>
       ELSE /\ Len(issued) < MaxId
            /\ listeners' = listeners \cup {t}
            /\ request_id' = [request_id EXCEPT ![t] = _next_id]
            /\ _next_id' = NextId(_next_id)
            /\ fut' = [fut EXCEPT ![t] = NewFuture]
            /\ _pending' = Register(_pending, _next_id, t)
            /\ posted' = [posted EXCEPT ![t] = transmitted]
            /\ pc' = [pc EXCEPT ![t] = AfterPost(transmitted)]
            /\ issued' = Append(issued, _next_id)
            /\ last' = Step("apply", t, "")
    /\ UNCHANGED <<token, response, sys_path, root_exists, files, count>>

\* Lines 46-47, 51-52 and 101-103: the future of t's request is done, the task
\* resumes, removes its listener, tests the token and starts the fetch or returns.
ResumeToken(t) ==
    /\ pc[t] = "await_token"
    /\ fut[t].state = "done"
    /\ LET res == fut[t].result
           tok == res.value
       IN  IF TokenUsable(tok)
           THEN /\ token' = [token EXCEPT ![t] = tok]
                /\ pc' = [pc EXCEPT ![t] = "await_fetch"]
                /\ count' = [count EXCEPT !.fetch = More(@)]
                /\ last' = [Step("token", t, "") EXCEPT !.class = tok.tag]
           ELSE /\ pc' = [pc EXCEPT ![t] = "idle"]
                /\ last' = [Step("token", t, "declined") EXCEPT !.class = tok.tag]
                /\ UNCHANGED <<token, count>>
    /\ listeners' = listeners \ {t}
    /\ fut' = [fut EXCEPT ![t] = NoFuture]
    /\ request_id' = [request_id EXCEPT ![t] = 0]
    /\ posted' = [posted EXCEPT ![t] = FALSE]
    /\ UNCHANGED <<_next_id, _pending, response, sys_path, root_exists, files,
                   issued>>

\* Line 55: `await fetch(...)` settles with r.
FetchSettle(t, r) ==
    /\ pc[t] = "await_fetch"
    /\ IF r = "reject"
       THEN /\ pc' = [pc EXCEPT ![t] = "idle"]
            /\ token' = [token EXCEPT ![t] = PyNone]
            /\ last' = Step("fetch", t, "raised")
            /\ UNCHANGED response
       ELSE /\ pc' = [pc EXCEPT ![t] = "await_json"]
            /\ response' = [response EXCEPT ![t] = r]
            /\ last' = Step("fetch", t, "")
            /\ UNCHANGED token
    /\ UNCHANGED <<_next_id, _pending, fut, request_id, posted, listeners,
                   sys_path, root_exists, files, issued, count>>

\* Lines 62-63 and 104-107: `await response.json()` settles with body; the rest of
\* apply_custom_patch runs to its end without another await.
JsonSettle(t, body) ==
    /\ pc[t] = "await_json"
    /\ pc' = [pc EXCEPT ![t] = "idle"]
    /\ token' = [token EXCEPT ![t] = PyNone]
    /\ response' = [response EXCEPT ![t] = "none"]
    /\ IF body.kind \in {"malformed", "primitive"}
       THEN /\ last' = [Step("json", t, "raised") EXCEPT !.class = body.kind]
            /\ UNCHANGED <<sys_path, root_exists, files, count>>
       ELSE IF body.kind = "nocode"
       THEN LET fs == _ensure_virtual_root(FileState)
            IN  /\ sys_path' = fs.sys_path
                /\ root_exists' = fs.root_exists
                /\ last' = [Step("json", t, "raised") EXCEPT !.class = body.kind]
                /\ UNCHANGED <<files, count>>
       ELSE LET fs == install_virtual_package(_ensure_virtual_root(FileState),
                                              body.code)
            IN  /\ sys_path' = fs.sys_path
                /\ root_exists' = fs.root_exists
                /\ files' = fs.files
                /\ count' = [count EXCEPT !.install = More(@)]
                /\ last' = [Step("json", t,
                                 IF fs.raised THEN "raised" ELSE "installed")
                                EXCEPT !.class = body.kind]
    /\ UNCHANGED <<_next_id, _pending, fut, request_id, posted, listeners, issued>>

Init ==
    /\ _next_id = 1
    /\ _pending = EmptyDict
    /\ fut = [t \in Tasks |-> NoFuture]
    /\ request_id = [t \in Tasks |-> 0]
    /\ posted = [t \in Tasks |-> FALSE]
    /\ pc = [t \in Tasks |-> "idle"]
    /\ token = [t \in Tasks |-> PyNone]
    /\ response = [t \in Tasks |-> "none"]
    /\ listeners = {}
    /\ sys_path = InitialSysPath
    /\ root_exists = FALSE
    /\ files = EmptyDict
    /\ issued = <<>>
    /\ count = [fetch |-> 0, install |-> 0]
    /\ last = NoStep

Next ==
    \/ \E t \in Tasks, transmitted \in BOOLEAN : ApplyCustomPatch(t, transmitted)
    \/ \E e \in Events : Message(e)
    \/ \E t \in Tasks : ResumeToken(t)
    \/ \E t \in Tasks, r \in FetchResults : FetchSettle(t, r)
    \/ \E t \in Tasks, body \in Bodies : JsonSettle(t, body)

Spec == Init /\ [][Next]_vars

\* ------------------------------------------------------------------- claims

\* C1: the request ids assigned by post_and_wait are 1, 2, 3, ... in the order of
\* the calls, overlapping calls included: the i-th id assigned is i, so each is one
\* greater than the one before it and none is assigned twice; _next_id is the next.
C1_IdsSequential ==
    /\ \A i \in 1..Len(issued) : issued[i] = i
    /\ _next_id = Len(issued) + 1

\* Two calls of post_and_wait overlap: both await their reply, with different ids.
C1_Witness ==
    /\ Len(issued) >= 2
    /\ \E t, u \in Tasks :
          /\ t # u
          /\ pc[t] = "await_token" /\ pc[u] = "await_token"
          /\ request_id[t] # request_id[u]

\* C2: a reply whose request_id is no key of the pending mapping (never issued,
\* already resolved, or absent) raises nothing in _on_message, leaves the pending
\* mapping as it was and completes no future.
C2_UnknownReplyNoOp ==
    [][(last'.op = "message" /\ last'.class \in {"unknown", "resolved", "absent"})
          => /\ _pending' = _pending
             /\ fut' = fut
             /\ last'.errors = 0
             /\ ~last'.escaped]_vars

\* A reply for an id never issued arrived while one request was pending and
\* another had its reply already.
C2_Witness ==
    /\ last.op = "message" /\ last.class = "unknown"
    /\ \E t, u \in Tasks : fut[t].state = "pending" /\ fut[u].state = "done"
    /\ DOMAIN _pending # {}

\* C3: a pending request is completed at most once.  A future that is done keeps
\* its result until its caller resumes; a reply for an id already resolved changes
\* nothing; and a reply for a pending id completes that one future once, however
\* many listeners the event is delivered to, the later deliveries being no-ops
\* that raise nothing.
C3_AtMostOnce ==
    [][/\ \A t \in Tasks :
             fut[t].state = "done" => (fut'[t] = fut[t] \/ fut'[t] = NoFuture)
       /\ (last'.op = "message" /\ last'.class = "resolved")
             => (fut' = fut /\ _pending' = _pending /\ last'.errors = 0)
       /\ (last'.op = "message" /\ last'.class = "known")
             => /\ Cardinality({t \in Tasks : fut'[t] # fut[t]}) = 1
                /\ Cardinality(DOMAIN _pending \ DOMAIN _pending') = 1
                /\ last'.errors = 0
                /\ ~last'.escaped]_vars

\* A second reply for an id arrived, delivered to two listeners, while the future
\* completed by the first reply was still held by its caller.
C3_Witness ==
    /\ last.op = "message" /\ last.class = "resolved"
    /\ Cardinality(listeners) >= 2
    /\ \E t \in Tasks : fut[t].state = "done"

\* C4: an invocation of apply_custom_patch that starts with VIRTUAL_ROOT on
\* sys.path returns at once: it registers no listener, sends no token request (the
\* id counter and the pending mapping stay), starts no fetch and writes no file.
C4_GuardShortCircuits ==
    [][(last'.op = "apply" /\ InSeq(VIRTUAL_ROOT, sys_path))
          => /\ last'.result = "skipped"
             /\ UNCHANGED <<_next_id, _pending, fut, request_id, posted, pc, token,
                            response, listeners, sys_path, root_exists, files,
                            issued, count>>]_vars

\* An invocation was short-circuited after an install had put files in place.
C4_Witness ==
    /\ last.op = "apply" /\ last.result = "skipped"
    /\ InSeq(VIRTUAL_ROOT, sys_path)
    /\ DOMAIN files # {}

\* C5: when the value of the token reply is the empty string, absent or no string,
\* the task's step that receives it ends the run: no fetch is started, the root is
\* not ensured, nothing is installed, and the VIRTUAL_ROOT directory, sys.path and
\* the files are as they were; the run's first step, up to the wait for the
\* reply, leaves them alone too.
C5_DeclinedRunStops ==
    [][/\ \A t \in Tasks :
             (/\ last'.op = "token" /\ last'.task = t
              /\ ~(fut[t].result.value.tag = "str" /\ fut[t].result.value.s # ""))
                => /\ pc'[t] = "idle"
                   /\ last'.result = "declined"
                   /\ UNCHANGED <<sys_path, root_exists, files, count>>
       /\ last'.op = "apply" => UNCHANGED <<sys_path, root_exists, files, count>>]_vars

\* A run ended on an empty-string token, with VIRTUAL_ROOT neither created nor on
\* sys.path.
C5_Witness ==
    /\ last.op = "token" /\ last.result = "declined" /\ last.class = "str"
    /\ pc[last.task] = "idle"
    /\ ~root_exists /\ ~InSeq(VIRTUAL_ROOT, sys_path)

\* C6 (as claimed): when the bundle fetch is answered with HTTP 401, the run ends
\* with an error at the step that handles the answer, and the VIRTUAL_ROOT
\* directory and sys.path are what they were before that step.
C6_Http401Aborts ==
    [][\A t \in Tasks :
          (last'.op = "json" /\ last'.task = t /\ response[t] = "401")
             => /\ last'.result = "raised"
                /\ root_exists' = root_exists
                /\ sys_path' = sys_path]_vars

\* C7 (as claimed): the listener of a token exchange is registered only while the
\* exchange can still complete: not once the task is past `await get_ory_token()`,
\* and not when the request was never transmitted, so that no reply is owed.
C7_ListenerScoped ==
    \A t \in Tasks :
        (pc[t] # "await_token" \/ (fut[t].state = "pending" /\ ~posted[t]))
            => t \notin listeners

\* C8 (as claimed): over all invocations at most one token request is sent, at
\* most one bundle fetch is started and at most one install is begun.
C8_RunsOnce ==
    /\ Len(issued) <= 1
    /\ count.fetch <= 1
    /\ count.install <= 1

C10_MatchedById ==
    /\ \A t \in Tasks :
          fut[t].state = "done" => PyEqInt(fut[t].result.request_id, request_id[t])
    /\ \A k \in DOMAIN _pending : request_id[_pending[k]] = k

\* Two calls are outstanding and the reply to the later one arrived first.
C10_Witness ==
    \E t, u \in Tasks :
        /\ request_id[t] # 0 /\ request_id[t] < request_id[u]
        /\ fut[t].state = "pending"
        /\ fut[u].state = "done"

\* Number of times x occurs in seq.
Occurrences(x, seq) == Cardinality({i \in 1..Len(seq) : seq[i] = x})

\* C11: the steps of a run happen in order.  A fetch is started only by the step
\* that receives a token reply whose value is a non-empty string; the VIRTUAL_ROOT
\* directory and sys.path change only in the step that receives the parsed body of
\* the fetch; and a step that writes a file leaves VIRTUAL_ROOT existing and on
\* sys.path.
C11_StrictOrder ==
    [][/\ \A t \in Tasks :
             /\ (pc'[t] = "await_token" /\ pc[t] # "await_token") => pc[t] = "idle"
             /\ (pc'[t] = "await_fetch" /\ pc[t] # "await_fetch")
                   => /\ pc[t] = "await_token"
                      /\ fut[t].state = "done"
                      /\ fut[t].result.value.tag = "str"
                      /\ fut[t].result.value.s # ""
             /\ (pc'[t] = "await_json" /\ pc[t] # "await_json")
                   => pc[t] = "await_fetch"
       /\ (root_exists' # root_exists \/ sys_path' # sys_path)
             => /\ last'.op = "json"
                /\ pc[last'.task] = "await_json"
       /\ files' # files
             => /\ last'.op = "json"
                /\ root_exists'
                /\ InSeq(VIRTUAL_ROOT, sys_path')]_vars

\* A run went through all its steps and wrote files.
C11_Witness ==
    /\ last.op = "json" /\ last.result = "installed"
    /\ DOMAIN files # {}
    /\ InSeq(VIRTUAL_ROOT, sys_path)

\* C12: when transmitting the message raises, post_and_wait raises nothing: the
\* caller waits on its future, which stays registered under its id; the caller
\* leaves the wait and the entry leaves the mapping only in a step that delivers a
\* reply with that id.
C12_FailedSendHangs ==
    [][\A t \in Tasks :
          /\ (last'.op = "apply" /\ last'.task = t /\ last'.result = ""
                 /\ ~posted'[t])
                => /\ pc'[t] = "await_token"
                   /\ fut'[t].state = "pending"
                   /\ request_id'[t] \in DOMAIN _pending'
          /\ (pc[t] = "await_token" /\ fut[t].state = "pending" /\ ~posted[t])
                => \/ /\ pc'[t] = "await_token"
                      /\ fut'[t] = fut[t]
                      /\ request_id'[t] = request_id[t]
                      /\ request_id[t] \in DOMAIN _pending'
                   \/ /\ last'.op = "message" /\ last'.class = "known"
                      /\ pc'[t] = "await_token"
                      /\ fut'[t].state = "done"
                      /\ PyEqInt(fut'[t].result.request_id, request_id[t])]_vars

\* A request whose transmission failed is still pending after other messages came.
C12_Witness ==
    /\ last.op = "message"
    /\ \E t \in Tasks :
          /\ pc[t] = "await_token" /\ ~posted[t]
          /\ fut[t].state = "pending"
          /\ request_id[t] \in DOMAIN _pending

\* C13: VIRTUAL_ROOT is on sys.path at most once, and sys.path is only appended
\* to: what is on it stays on it, VIRTUAL_ROOT included.
C13_RegisteredOnce ==
    [][/\ Occurrences(VIRTUAL_ROOT, sys_path) <= 1
       /\ Occurrences(VIRTUAL_ROOT, sys_path') <= 1
       /\ Len(sys_path') >= Len(sys_path)
       /\ SubSeq(sys_path', 1, Len(sys_path)) = sys_path]_vars

\* Two runs each ensured the root, twice each, and installed.
C13_Witness ==
    /\ count.install = 2
    /\ Occurrences(VIRTUAL_ROOT, sys_path) = 1

\* The first entry of bundle whose decoding fails; Len(bundle) + 1 when none does.
FirstBad(bundle) ==
    LET bad == {j \in 1..Len(bundle) : ~DecodedFile(bundle[j].src).ok}
    IN  IF bad = {} THEN Len(bundle) + 1
        ELSE CHOOSE j \in bad : \A k \in bad : j <= k

\* FirstBad and the decoded entries of the bundles the host may send.
FirstBadOf == [b \in Bundles |-> FirstBad(b)]
DecodedOf == [b \in Bundles |-> [j \in 1..Len(b) |-> DecodedFile(b[j].src)]]

\* The entries among the first n of bundle that are written to the file at path.
Writers(bundle, n, path) ==
    {j \in 1..n : AbsPath(bundle[j].relpath) = path}

\* The files after the first n entries of bundle were written over old: a file no
\* entry names is as it was, another holds what the last entry naming it decodes to.
FilesAfter(old, bundle, n) ==
    LET written == {AbsPath(bundle[j].relpath) : j \in 1..n}
    IN  [path \in (DOMAIN old) \cup written |->
            LET w == Writers(bundle, n, path)
            IN  IF w = {} THEN old[path]
                ELSE DecodedOf[bundle][CHOOSE j \in w : \A k \in w : k <= j].bytes]

\* A run is where install_virtual_package is called next: its fetch has returned
\* and the body is awaited.
InstallDue == \E t \in Tasks : pc[t] = "await_json"

\* C14: when the decoding of an entry fails, install_virtual_package raises; the
\* files are then those before the call with the entries before the failing one
\* written over them, each holding its decoded content: nothing of the failing
\* entry or of an entry after it is written, and nothing written is taken back.
C14_FailureKeepsPrefix ==
    InstallDue =>
        \A b \in Bundles :
            FirstBadOf[b] <= Len(b) =>
                LET r == install_virtual_package(FileState, b)
                    n == FirstBadOf[b] - 1
                IN  /\ r.raised
                    /\ r.files = FilesAfter(files, b, n)
                    /\ \A j \in (n + 1)..Len(b) :
                          Writers(b, n, AbsPath(b[j].relpath)) = {}
                              => /\ AbsPath(b[j].relpath) \in DOMAIN r.files
                                       => AbsPath(b[j].relpath) \in DOMAIN files
                                 /\ AbsPath(b[j].relpath) \in DOMAIN files
                                       => r.files[AbsPath(b[j].relpath)]
                                              = files[AbsPath(b[j].relpath)]

\* The one install so far raised at its second entry: the first entry's file is
\* there with its decoded content, the third entry's file is not.
C14_Witness ==
    /\ last.op = "json" /\ last.class = "bundle" /\ last.result = "raised"
    /\ count.install = 1
    /\ DOMAIN files = {AbsPath(<<"pkg", "a.py">>)}
    /\ files[AbsPath(<<"pkg", "a.py">>)]
           = <<195, 169, 226, 130, 172, 240, 159, 152, 128>>

\* C15 as stated: after install_virtual_package(bundle) returns, for every relative
\* path of the bundle the file at VIRTUAL_ROOT/path holds the decoded content of
\* that entry, whatever was there before, and every other file is as it was.
C15_EveryEntryHeld ==
    InstallDue =>
        \A b \in Bundles :
            FirstBadOf[b] > Len(b) =>
                LET r == install_virtual_package(FileState, b)
                    written == {AbsPath(b[j].relpath) : j \in 1..Len(b)}
                IN  /\ ~r.raised
                    /\ \A j \in 1..Len(b) :
                          /\ AbsPath(b[j].relpath) \in DOMAIN r.files
                          /\ r.files[AbsPath(b[j].relpath)] = DecodedOf[b][j].bytes
                    /\ (DOMAIN r.files) \ written = (DOMAIN files) \ written
                    /\ \A path \in (DOMAIN files) \ written :
                          r.files[path] = files[path]

\* C15, amended: after install_virtual_package(bundle) returns, every file that a
\* relative path of the bundle names holds the decoded content of the last entry,
\* in bundle order, whose path names that file, whatever was there before, and
\* every other file is as it was.
C15_LastEntryHeld ==
    InstallDue =>
        \A b \in Bundles :
            FirstBadOf[b] > Len(b) =>
                LET r == install_virtual_package(FileState, b)
                    written == {AbsPath(b[j].relpath) : j \in 1..Len(b)}
                IN  /\ ~r.raised
                    /\ \A path \in written :
                          /\ path \in DOMAIN r.files
                          /\ \E j \in Writers(b, Len(b), path) :
                                /\ \A k \in Writers(b, Len(b), path) : k <= j
                                /\ r.files[path] = DecodedOf[b][j].bytes
                    /\ (DOMAIN r.files) \ written = (DOMAIN files) \ written
                    /\ \A path \in (DOMAIN files) \ written :
                          r.files[path] = files[path]

\* An install that returned wrote pkg/a.py twice, through "pkg/a.py" and through
\* "./pkg/a.py", over the file of an earlier install, and left that install's
\* pkg/__init__.py alone.
C15_Witness ==
    /\ last.op = "json" /\ last.class = "bundle" /\ last.result = "installed"
    /\ count.install = 2
    /\ DOMAIN files = {AbsPath(<<"pkg", "a.py">>), AbsPath(<<"pkg", "__init__.py">>)}
    /\ files[AbsPath(<<"pkg", "a.py">>)] = <<>>

\* Byte sequences a packaged file may hold: empty, ASCII, line ends, a NUL, UTF-8
\* of two to four bytes, and sequences that are not UTF-8.
RoundTripBytes ==
    { <<>>, <<120, 61, 49>>, <<13, 10>>, <<0>>,
      <<195, 169, 226, 130, 172, 240, 159, 152, 128>>,
      <<255, 254>>, <<195>>, <<237, 160, 128>> }

\* C16: for every byte sequence, encoding it as the packaging script does and
\* installing the result gives a file whose bytes are that sequence.
C16_RoundTrip ==
    \A bytes \in RoundTripBytes :
        LET r == install_virtual_package(
                     FileState, <<Entry(<<"pkg", "r.py">>, b64encode(bytes))>>)
        IN  /\ ~r.raised
            /\ AbsPath(<<"pkg", "r.py">>) \in DOMAIN r.files
            /\ r.files[AbsPath(<<"pkg", "r.py">>)] = bytes

\* C17: a run that ends because the token reply held no non-empty string ends with
\* VIRTUAL_ROOT off sys.path, and the invocation that comes next passes the guard:
\* it registers its listener and makes a token request with an id above every id
\* issued before.
C17_DeclinedRunRetries ==
    [][/\ (last'.op = "token" /\ last'.result = "declined")
             => ~InSeq(VIRTUAL_ROOT, sys_path')
       /\ (last.op = "token" /\ last.result = "declined" /\ last'.op = "apply")
             => /\ last'.result = ""
                /\ last'.task \in listeners'
                /\ request_id'[last'.task] \in DOMAIN _pending'
                /\ \A i \in 1..Len(issued) : issued[i] < request_id'[last'.task]]_vars

\* C18: every key of _pending is an id that was issued, and it is the id of a
\* post_and_wait call that waits on a future not yet done; a call whose future is
\* done, or that has returned, has no entry.
C18_PendingAreWaiting ==
    /\ \A k \in DOMAIN _pending :
          /\ 1 <= k /\ k < _next_id
          /\ \E i \in 1..Len(issued) : issued[i] = k
          /\ pc[_pending[k]] = "await_token"
          /\ fut[_pending[k]].state = "pending"
          /\ request_id[_pending[k]] = k
    /\ \A t \in Tasks :
          (pc[t] # "await_token" \/ fut[t].state = "done")
              => /\ \A k \in DOMAIN _pending : _pending[k] # t
                 /\ request_id[t] \notin DOMAIN _pending
    /\ last.op = "token" => \A k \in DOMAIN _pending : _pending[k] # last.task

\* A call has just returned while another still waits: the entry of the one that
\* returned is gone, the other's is there.
C18_Witness ==
    /\ last.op = "token"
    /\ \E u \in Tasks :
          /\ u # last.task
          /\ pc[u] = "await_token" /\ fut[u].state = "pending"
          /\ DOMAIN _pending = {request_id[u]}
====
